---------------------------- MODULE Spec2Model ----------------------------
(***************************************************************************)
(* A model of docgen's cross-file call-graph builder                       *)
(* (src/call_graph/graph.rs, import.rs, manifest.rs, utils/mod.rs).        *)
(*                                                                         *)
(* The recursion CallGraph::build -> CallGraphBuilder::build ->            *)
(* FunctionCallBuilder::build -> CallGraphBuilder::build ... is modelled   *)
(* as an explicit stack of frames.  A frame's `todo` is the list of syntax *)
(* nodes its syn visitor has still to visit, in visit order; one action    *)
(* visits one node.                                                        *)
(*                                                                         *)
(* Strings that the code splits or joins are sequences of their parts:     *)
(* a path is the sequence of its components (<<"/", "p", "src", "a.rs">>), *)
(* an import path the sequence of its segments, and a node key the         *)
(* sequence of the segments that the code joins with "::".                 *)
(* Option<T> is a sequence of length 0 (None) or 1 (Some).                 *)
(***************************************************************************)
EXTENDS Naturals, Sequences, FiniteSets, TLC

VARIABLES
    world,            \* the source tree, manifest and entry point (never changes)
    graph,            \* CallGraph.graph: node weights, NodeIndex i at position i+1
    edges,            \* CallGraph.graph: edges <<source, target>> in insertion order
    nodes_map,        \* CallGraph.nodes_map: node key -> CallNode
    nodes_index_map,  \* CallGraph.nodes_index_map: node key -> position in graph
    imports,          \* CallGraph.imports: the ImportMap of the top-level builder
    stack,            \* the builders in progress, innermost first
    status,           \* "new", "idle", "building", "ok", "err" or "panic"
    builds,           \* calls of CallGraph::build so far
    reads,            \* history: files given to fs::read_to_string, in order
    walked,           \* history: node keys whose body FunctionCallBuilder::build walked
    raised,           \* history: errors raised during the current build, in order
    pre,              \* history: graph, edges, registry and status when the current build began
    resolved,         \* history: the definitions located so far, each with its key
    last              \* history: what the last step did

vars == <<world, graph, edges, nodes_map, nodes_index_map, imports, stack,
          status, builds, reads, walked, raised, pre, resolved, last>>

None == << >>
Some(x) == <<x>>

\* The number of CallGraph::build calls made on one CallGraph.
MaxBuilds == 2

\* The deepest stack of builders explored.
MaxStack == 12

-----------------------------------------------------------------------------
(* Syntax trees (syn).                                                     *)

UName(id) == [t |-> "Name", ident |-> id]
UPath(id, sub) == [t |-> "Path", ident |-> id, tree |-> sub]
UGroup(items) == [t |-> "Group", items |-> items]
UGlob == [t |-> "Glob"]
URename(id, alias) == [t |-> "Rename", ident |-> id, rename |-> alias]

RECURSIVE UseOf(_)
\* The use tree of the plain path a::b::c.
UseOf(segs) ==
    IF Len(segs) = 1 THEN UName(segs[1]) ELSE UPath(segs[1], UseOf(Tail(segs)))

IUse(tree) == [t |-> "Use", tree |-> tree]
IFn(id, block) == [t |-> "Fn", ident |-> id, block |-> block]
ImplFn(id, block) == [t |-> "ImplFn", ident |-> id, block |-> block]
IImpl(ty, items) == [t |-> "Impl", self_ty |-> ty, items |-> items]
IMod(id, items) == [t |-> "Mod", ident |-> id, items |-> items]
ECall(path, args) == [t |-> "Call", path |-> path, args |-> args]
EMethodCall(receiver, method, args) ==
    [t |-> "MethodCall", receiver |-> receiver, method |-> method, args |-> args]

IsItem(n) == n.t \in {"Use", "Fn", "Impl", "Mod"}

Func(s) == [t |-> "Func", name |-> s]
MethodCall(ts, m) == [t |-> "MethodCall", target_struct |-> ts, method |-> m]

-----------------------------------------------------------------------------
(* Paths (std::path).                                                      *)

Parent(p) == IF Len(p) <= 1 THEN None ELSE Some(SubSeq(p, 1, Len(p) - 1))

Join(p, c) == Append(p, c)

\* Path::ancestors: the path, its parent, ..., the root.
Ancestors(p) == [i \in 1..Len(p) |-> SubSeq(p, 1, Len(p) - i + 1)]

IsPrefix(p, q) == Len(p) <= Len(q) /\ SubSeq(q, 1, Len(p)) = p

RECURSIVE NormalizeOnto(_, _)
\* The components of p taken one by one onto the path `seen`: "." stays put
\* and ".." goes up.
NormalizeOnto(seen, p) ==
    IF p = << >> THEN seen
    ELSE NormalizeOnto(
             IF p[1] = "." THEN seen
             ELSE IF p[1] = ".."
             THEN (IF Len(seen) > 1 THEN SubSeq(seen, 1, Len(seen) - 1) ELSE seen)
             ELSE Append(seen, p[1]),
             Tail(p))

\* The file system's reading of a path.
Normalize(p) ==
    IF \A i \in 1..Len(p) : p[i] \notin {".", ".."} THEN p
    ELSE NormalizeOnto(<< >>, p)

\* Path::exists: a file of the tree, or a directory above one.
Exists(p, files) ==
    \E q \in {p} : \E n \in {Normalize(q)} : \E f \in files : IsPrefix(n, f)


-----------------------------------------------------------------------------
(* Results of fallible steps: a value, an anyhow::Error, or a panic.       *)

Ok(v) == [out |-> "ok", val |-> v]
Err(e) == [out |-> "err", val |-> e]
Panic(why) == [out |-> "panic", val |-> why]

-----------------------------------------------------------------------------
(* utils/mod.rs and manifest.rs.                                           *)

RECURSIVE Concat(_)
\* The string whose parts are given.
Concat(parts) == IF parts = << >> THEN "" ELSE parts[1] \o Concat(Tail(parts))

\* The name as it is written in the manifest.
to_snake_caseKept(parts) == Concat(parts)

\* to_snake_case: every "-" of the name becomes "_".  A name is given by its
\* parts, each "-" a part of its own.
to_snake_case(parts) ==
    Concat([i \in 1..Len(parts) |-> IF parts[i] = "-" THEN "_" ELSE parts[i]])

\* Manifest::package_name().map(|n| to_snake_case(&n))
SnakePackageName(package) ==
    IF package = None THEN None ELSE Some(to_snake_case(package[1]))

-----------------------------------------------------------------------------
(* import.rs.                                                              *)

\* The ancestors of base_dir that hold a directory entry "src".
SrcHolders(base_dir, files) ==
    SelectSeq(Ancestors(base_dir), LAMBDA d : Exists(Join(d, "src"), files))

\* `super` written as base_dir.join(".."): the same directory under another
\* spelling.
ModuleStartDirDotDot(first, base_dir, crate_name, files) ==
    IF first = crate_name \/ first = "crate"
    THEN IF SrcHolders(base_dir, files) = << >>
         THEN None
         ELSE Some(Join(SrcHolders(base_dir, files)[1], "src"))
    ELSE IF first = "self" THEN Some(base_dir)
    ELSE IF first = "super" THEN Some(Join(base_dir, ".."))
    ELSE None

\* LocalImport::resolve_import_module_path, up to the directory the module
\* path starts from: Some(dir), or None.
ModuleStartDir(first, base_dir, crate_name, files) ==
    IF first = crate_name \/ first = "crate"
    THEN IF SrcHolders(base_dir, files) = << >>
         THEN None
         ELSE Some(Join(SrcHolders(base_dir, files)[1], "src"))
    ELSE IF first = "self" THEN Some(base_dir)
    ELSE IF first = "super" THEN Parent(base_dir)
    ELSE None

\* LocalImport::resolve_import_module_path: Ok(Some(file)), Ok(None), or the
\* panic of &segments[1..0] when the module path is its first segment alone.
resolve_import_module_path(segments, base_dir, crate_name, files) ==
    IF segments = << >> THEN Ok(None)
    ELSE LET start == ModuleStartDir(segments[1], base_dir, crate_name, files) IN
         IF start = None THEN Ok(None)
         ELSE IF Len(segments) - 1 < 1
         THEN Panic("slice index starts at 1 but ends at 0")
         ELSE LET module_dir == start[1] \o SubSeq(segments, 2, Len(segments) - 1)
                  module == segments[Len(segments)]
                  file_rs == Join(module_dir, module \o ".rs")
                  mod_rs == Join(Join(module_dir, module), "mod.rs")
              IN IF Exists(file_rs, files) THEN Ok(Some(file_rs))
                 ELSE IF Exists(mod_rs, files) THEN Ok(Some(mod_rs))
                 ELSE Ok(None)

\* LocalImport::try_new
LocalImportTryNew(path_segments, base_dir, crate_name, files) ==
    LET r == resolve_import_module_path(
                 SubSeq(path_segments, 1, Len(path_segments) - 1),
                 base_dir, crate_name, files) IN
    IF r.out = "panic" THEN r
    ELSE IF r.val = None THEN Err("failed to resolve import module path")
    ELSE Ok([kind |-> "Local",
             identifier |-> path_segments[Len(path_segments)],
             full_path |-> path_segments,
             module_file_path |-> r.val[1]])

\* ExternalImport::new
ExternalImportNew(path_segments) ==
    [kind |-> "External",
     identifier |-> path_segments[1],
     full_path |-> path_segments]

\* Import::get_identifier
get_identifier(import) == import.identifier

\* ImportMap::insert
ImportMapInsert(map, value) ==
    [k \in DOMAIN map \cup {get_identifier(value)} |->
        IF k = get_identifier(value) THEN value ELSE map[k]]

\* A lookup that returns an import whatever the key.
ImportMapGetAny(map, key) ==
    IF DOMAIN map = {} THEN None ELSE Some(map[CHOOSE k \in DOMAIN map : TRUE])

\* ImportMap::get
ImportMapGet(map, key) == IF key \in DOMAIN map THEN Some(map[key]) ELSE None

\* ImportMap::new
ImportMapNew == [k \in {} |-> None]

-----------------------------------------------------------------------------
(* CallGraphBuilder: imports and node keys.                                *)

\* A match arm that leaves `super` out.
IsKeywordPrefixNoSuper(first) == first \in {"crate", "self"}

\* The first arm of resolve_import's match.
IsKeywordPrefix(first) == first \in {"crate", "self", "super"}

\* The guard of the second arm of resolve_import's match.
IsPackagePrefix(first, package) == Some(first) = SnakePackageName(package)

\* self.entry_file.parent().unwrap_or_else(|| Path::new("."))
BaseDir(entry_file) ==
    IF Parent(entry_file) = None THEN <<".">> ELSE Parent(entry_file)[1]

\* CallGraphBuilder::resolve_import.  The arguments of LocalImport::try_new
\* are evaluated first, and unwrap an absent package name.
resolve_import(path_prefix, entry_file, package, files) ==
    IF IsKeywordPrefix(path_prefix[1]) \/ IsPackagePrefix(path_prefix[1], package)
    THEN IF SnakePackageName(package) = None
         THEN Panic("called Option::unwrap() on a None value")
         ELSE LocalImportTryNew(path_prefix, BaseDir(entry_file),
                                SnakePackageName(package)[1], files)
    ELSE Ok(ExternalImportNew(path_prefix))

RECURSIVE process_use_tree(_, _, _, _, _, _)
RECURSIVE ProcessUseGroup(_, _, _, _, _, _)

\* CallGraphBuilder::process_use_tree: the ImportMap after the tree, with Ok,
\* the first error, or the panic of todo!().  Imports inserted before an
\* error or a panic stay in the map.
process_use_tree(tree, path_prefix, map, entry_file, package, files) ==
    CASE tree.t = "Path" ->
            process_use_tree(tree.tree, Append(path_prefix, tree.ident), map,
                             entry_file, package, files)
      [] tree.t = "Group" ->
            ProcessUseGroup(tree.items, path_prefix, map, entry_file, package, files)
      [] tree.t = "Name" ->
            LET r == resolve_import(Append(path_prefix, tree.ident),
                                    entry_file, package, files) IN
            IF r.out = "ok"
            THEN [out |-> "ok", val |-> None, map |-> ImportMapInsert(map, r.val)]
            ELSE [out |-> r.out, val |-> r.val, map |-> map]
      [] OTHER ->
            [out |-> "panic",
             val |-> "not yet implemented: not sure how to handle glob and rename yet",
             map |-> map]

\* The loop of process_use_tree over a group's items.
ProcessUseGroup(items, path_prefix, map, entry_file, package, files) ==
    IF items = << >> THEN [out |-> "ok", val |-> None, map |-> map]
    ELSE LET r == process_use_tree(items[1], path_prefix, map,
                                   entry_file, package, files) IN
         IF r.out = "ok"
         THEN ProcessUseGroup(Tail(items), path_prefix, r.map,
                              entry_file, package, files)
         ELSE r

\* The names of the modules of the source trees: a file name is one of them
\* followed by ".rs".
ModuleNames == {"main", "a", "b", "c", "mod", "lib", "m", "T"}

\* str::replace(".rs", "") on one component of a path.
StripRs(c) ==
    IF \E n \in ModuleNames : c = n \o ".rs"
    THEN CHOOSE n \in ModuleNames : c = n \o ".rs"
    ELSE c

\* entry_file.iter()...join("::").replace(".rs", ""): the segments of the key.
FileKey(entry_file) == [i \in 1..Len(entry_file) |-> StripRs(entry_file[i])]

\* CallGraphBuilder::resolve_node_key
resolve_node_key(entry_file, entrypoint) ==
    IF entrypoint.t = "Func"
    THEN FileKey(entry_file) \o <<entrypoint.name>>
    ELSE FileKey(entry_file) \o <<entrypoint.target_struct, entrypoint.method>>

\* The key computed in FunctionCallBuilder::visit_expr_call for Self::method:
\* it is built from the builder's own entry point, not from `method`.
SelfCallNodeKey(entry_file, entrypoint, method) ==
    FileKey(entry_file) \o
        (IF entrypoint.t = "Func"
         THEN <<entrypoint.name>>
         ELSE <<entrypoint.target_struct, entrypoint.method>>)

\* The key computed in CallGraphBuilder::visit_item_impl.
ImplNodeKey(entry_file, target_struct, method) ==
    FileKey(entry_file) \o <<target_struct, method>>

\* From<&ItemFn> and From<&ExprPath> for CallNode (the span is left out).
CallNodeOfFn(ident) == [method_of |-> None, identifier |-> ident]

\* From<(&ImplItemFn, &ItemImpl)> for CallNode
CallNodeOfMethod(ident, self_ty) == [method_of |-> Some(self_ty), identifier |-> ident]

-----------------------------------------------------------------------------
(* The source trees.  A tree holds /p/Cargo.toml and up to three files     *)
(* under /p/src; each file's text is one of a few, named for what it holds.*)

SrcDir == <<"/", "p", "src">>
MainRs == Join(SrcDir, "main.rs")
ARs == Join(SrcDir, "a.rs")
BRs == Join(SrcDir, "b.rs")

Source(items) == [kind |-> "source", items |-> items]
\* A file that is not UTF-8: fs::read_to_string fails.
Binary == [kind |-> "binary"]
\* A file that is no Rust source: syn::parse_file fails.
Garbage == [kind |-> "garbage"]

\* No file at that path.
Absent == [kind |-> "absent"]

Call0(f) == ECall(<<f>>, << >>)

MainTexts ==
    [use_helper |->
        Source(<<IUse(UseOf(<<"crate", "a", "helper">>)),
                 IFn("main", <<Call0("helper")>>)>>),
     helper_then_use |->
        Source(<<IFn("main", <<Call0("helper")>>),
                 IUse(UseOf(<<"crate", "a", "helper">>))>>),
     externals |->
        Source(<<IUse(UseOf(<<"std", "fs", "read_to_string">>)),
                 IUse(UseOf(<<"log">>)),
                 IFn("main", <<Call0("read_to_string"), Call0("log"),
                               Call0("std"), Call0("log"),
                               ECall(<<"log", "info">>, << >>)>>)>>),
     two_callees |->
        Source(<<IUse(UseOf(<<"crate", "a", "helper">>)),
                 IUse(UseOf(<<"crate", "b", "other">>)),
                 IFn("main", <<Call0("helper"), Call0("other"), Call0("helper")>>)>>),
     group |->
        Source(<<IUse(UPath("crate", UGroup(<<UseOf(<<"a", "helper">>),
                                              UseOf(<<"b", "other">>)>>))),
                 IFn("main", <<ECall(<<"helper">>, <<Call0("other")>>)>>)>>),
     glob |->
        Source(<<IUse(UPath("crate", UPath("a", UGlob))),
                 IFn("main", << >>)>>),
     rename |->
        Source(<<IUse(UPath("crate", UPath("a", URename("helper", "h")))),
                 IFn("main", <<Call0("h")>>)>>),
     missing |->
        Source(<<IUse(UseOf(<<"crate", "missing", "f">>)),
                 IUse(UseOf(<<"crate", "b", "other">>)),
                 IFn("main", <<Call0("f"), Call0("other")>>)>>),
     missing_then_glob |->
        Source(<<IUse(UseOf(<<"crate", "missing", "f">>)),
                 IUse(UPath("std", UGlob)),
                 IFn("main", << >>)>>),
     two_segments |->
        Source(<<IUse(UseOf(<<"crate", "helper">>)),
                 IFn("main", <<Call0("helper")>>)>>),
     type_call |->
        Source(<<IUse(UseOf(<<"crate", "a", "T">>)),
                 IFn("main", <<ECall(<<"T", "m1">>, << >>),
                               ECall(<<"T", "m2">>, << >>)>>)>>),
     prefixes |->
        Source(<<IUse(UseOf(<<"my_pkg", "a", "helper">>)),
                 IUse(UseOf(<<"self", "b", "other">>)),
                 IFn("main", <<Call0("helper"), Call0("other")>>)>>),
     super_prefix |->
        Source(<<IUse(UseOf(<<"super", "src", "a", "helper">>)),
                 IUse(UseOf(<<"crate", "b", "other">>)),
                 IFn("main", <<Call0("helper"), Call0("other")>>)>>),
     unresolved |->
        Source(<<IUse(UseOf(<<"crate", "a", "helper">>)),
                 IFn("main", <<EMethodCall(<<Call0("unknown")>>, "helper", << >>),
                               ECall(<<"a", "b", "helper">>, <<Call0("helper")>>),
                               ECall(<<"Self", "helper">>, << >>)>>)>>),
     garbage |-> Garbage,
     binary |-> Binary]

ATexts ==
    [helper |-> Source(<<IFn("helper", << >>)>>),
     helper_calls_other |->
        Source(<<IUse(UseOf(<<"crate", "b", "other">>)),
                 IFn("helper", <<Call0("other")>>)>>),
     self_recursive |->
        Source(<<IUse(UseOf(<<"crate", "a", "helper">>)),
                 IFn("helper", <<Call0("helper")>>)>>),
     impl_T |->
        Source(<<IUse(UseOf(<<"crate", "b", "other">>)),
                 IImpl("T", <<ImplFn("m1", <<ECall(<<"Self", "m2">>, <<Call0("other")>>)>>),
                              ImplFn("m2", <<Call0("other")>>)>>),
                 IFn("helper", << >>)>>),
     helper_no_use |-> Source(<<IFn("helper", <<Call0("other")>>)>>),
     self_super_use |->
        Source(<<IUse(UseOf(<<"self", "b", "other">>)),
                 IUse(UseOf(<<"super", "b", "other">>)),
                 IFn("helper", <<Call0("other")>>)>>),
     helper_then_bad_use |->
        Source(<<IFn("helper", << >>),
                 IUse(UseOf(<<"crate", "missing", "x">>))>>),
     nested |->
        Source(<<IUse(UseOf(<<"crate", "b", "other">>)),
                 IMod("inner", <<IFn("helper", <<IFn("local", <<Call0("other")>>)>>)>>),
                 IFn("outer", <<IFn("helper", << >>)>>)>>),
     garbage |-> Garbage,
     binary |-> Binary,
     absent |-> Absent]

BTexts ==
    [other |-> Source(<<IFn("other", << >>)>>),
     other_calls_helper |->
        Source(<<IUse(UseOf(<<"crate", "a", "helper">>)),
                 IFn("other", <<Call0("helper")>>)>>),
     no_other |->
        Source(<<IUse(UseOf(<<"crate", "a", "helper">>)),
                 IFn("another", <<Call0("helper")>>)>>),
     garbage |-> Garbage]

\* Cargo.toml's package name, by its parts; None for a manifest without [package].
Packages == {None, Some(<<"my", "-", "pkg">>)}

\* Where a build starts: CallGraph::try_new's entry_file and entrypoint.
Entries ==
    [main |-> [file |-> MainRs, entrypoint |-> Func("main")],
     method |-> [file |-> ARs, entrypoint |-> MethodCall("T", "m1")]]

Worlds ==
    {w \in [main : DOMAIN MainTexts, a : DOMAIN ATexts, b : DOMAIN BTexts,
            package : Packages, entry : DOMAIN Entries] :
        w.entry = "method" => w.main = "use_helper"}

\* The files of a world, by path.
FileSystem(w) ==
    [f \in {MainRs, BRs} \cup (IF ATexts[w.a] = Absent THEN {} ELSE {ARs}) |->
        IF f = MainRs THEN MainTexts[w.main]
        ELSE IF f = ARs THEN ATexts[w.a]
        ELSE BTexts[w.b]]

Files == DOMAIN FileSystem(world)
entry_file == Entries[world.entry].file
entrypoint == Entries[world.entry].entrypoint

-----------------------------------------------------------------------------
(* Builders in progress.                                                   *)

\* What a builder does when the builder it started returns: the nodes its
\* visitor goes on to visit after Ok, and after Err.
NoAwait == [onOk |-> << >>, onErr |-> << >>]

\* A builder that is handed the import map of the builder that starts it.
CallGraphBuilderNewShared(file, entry, parent_node_key, import_map, depth) ==
    [k |-> "CallGraphBuilder",
     entry_file |-> file,
     entrypoint |-> entry,
     parent_node_key |-> parent_node_key,
     imports |-> IF stack = << >> THEN import_map
                 ELSE stack[CHOOSE i \in 1..Len(stack) :
                                /\ stack[i].k = "CallGraphBuilder"
                                /\ \A j \in 1..(i - 1) :
                                      stack[j].k # "CallGraphBuilder"].imports,
     error |-> None,
     depth |-> depth,
     pc |-> "start",
     todo |-> << >>,
     await |-> NoAwait]

\* CallGraphBuilder::new.  pc is "start" until build() has read and parsed
\* the file.
CallGraphBuilderNew(file, entry, parent_node_key, import_map, depth) ==
    [k |-> "CallGraphBuilder",
     entry_file |-> file,
     entrypoint |-> entry,
     parent_node_key |-> parent_node_key,
     imports |-> import_map,
     error |-> None,
     depth |-> depth,
     pc |-> "start",
     todo |-> << >>,
     await |-> NoAwait]

\* ParentNode::Fn and ParentNode::Method
ParentNodeFn(node_key) == [kind |-> "Fn", node_key |-> node_key, impl_block |-> None]
ParentNodeMethod(node_key, impl_block) ==
    [kind |-> "Method", node_key |-> node_key, impl_block |-> Some(impl_block)]

\* FunctionCallBuilder::new followed by build(): the visitor starts on the
\* statements of the function's block.
FunctionCallBuilderNew(parent_node, block, depth) ==
    [k |-> "FunctionCallBuilder",
     parent_node |-> parent_node,
     error |-> None,
     depth |-> depth,
     todo |-> block,
     await |-> NoAwait]

IsCGB(f) == f.k = "CallGraphBuilder"
IsFCB(f) == f.k = "FunctionCallBuilder"

Top == stack[1]

\* The CallGraphBuilder a FunctionCallBuilder at the top of the stack borrows:
\* the nearest one below it.
Cgb == stack[CHOOSE i \in 1..Len(stack) :
                 /\ IsCGB(stack[i])
                 /\ \A j \in 1..(i - 1) : ~IsCGB(stack[j])]

\* The items among the statements of a block, which the default visitor of
\* CallGraphBuilder reaches.
NestedItems(block) == SelectSeq(block, IsItem)

RECURSIVE Flatten(_)
Flatten(seqs) == IF seqs = << >> THEN << >> ELSE seqs[1] \o Flatten(Tail(seqs))

\* The items nested in the methods of an impl block.
ImplNestedItems(impl) ==
    Flatten([i \in 1..Len(impl.items) |-> NestedItems(impl.items[i].block)])

\* The first method of the impl block, whatever its name.
FindMethodFirst(impl, method) ==
    IF impl.items = << >> THEN None ELSE Some(impl.items[1])

\* The first method of an impl block with that name: Some(method) or None.
FindMethod(impl, method) ==
    LET hits == SelectSeq(impl.items, LAMBDA m : m.ident = method) IN
    IF hits = << >> THEN None ELSE Some(hits[1])

-----------------------------------------------------------------------------
(* The registry and the graph.                                             *)

\* A registry lookup that never finds the key.
ContainsKeyNever(map, node_key) == FALSE

\* self.nodes_map.contains_key(&node_key)
ContainsKey(map, node_key) == node_key \in DOMAIN map

\* An insert that is left out.
MapInsertDropped(map, key, value) == map

\* HashMap::insert
MapInsert(map, key, value) ==
    [k \in DOMAIN map \cup {key} |-> IF k = key THEN value ELSE map[k]]

\* A registration that leaves the edge out.
RegisterNodeNoEdge(node_key, call_node, parent_node_key) ==
    /\ nodes_map' = MapInsert(nodes_map, node_key, call_node)
    /\ graph' = Append(graph, node_key)
    /\ nodes_index_map' = MapInsert(nodes_index_map, node_key, Len(graph) + 1)
    /\ edges' = edges

\* nodes_map.insert, graph.add_node, nodes_index_map.insert and, when the
\* parent's key has an index, graph.add_edge.
RegisterNode(node_key, call_node, parent_node_key) ==
    /\ nodes_map' = MapInsert(nodes_map, node_key, call_node)
    /\ graph' = Append(graph, node_key)
    /\ nodes_index_map' = MapInsert(nodes_index_map, node_key, Len(graph) + 1)
    /\ edges' = IF parent_node_key # None /\ parent_node_key[1] \in DOMAIN nodes_index_map'
                THEN Append(edges, <<nodes_index_map'[parent_node_key[1]], Len(graph) + 1>>)
                ELSE edges

NoRegister == UNCHANGED <<graph, edges, nodes_map, nodes_index_map>>

Snapshot ==
    [graph |-> graph, edges |-> edges, keys |-> DOMAIN nodes_map,
     nodes_map |-> nodes_map, nodes_index_map |-> nodes_index_map,
     status |-> status]

\* A return after which the caller examines nothing more.
DeliverAndStop(res) ==
    IF Len(stack) = 1 THEN << >>
    ELSE <<[stack[2] EXCEPT !.error = IF res.out = "err" THEN Some(res.val) ELSE @,
                            !.todo = << >>,
                            !.await = NoAwait]>> \o SubSeq(stack, 3, Len(stack))

\* The stack after its top builder returned `res` to the builder below:
\* `self.error = Some(e); return` on Err, and the rest of the visit.
Deliver(res) ==
    IF Len(stack) = 1 THEN << >>
    ELSE LET f == stack[2] IN
         <<[f EXCEPT !.error = IF res.out = "err" THEN Some(res.val) ELSE @,
                     !.todo = (IF res.out = "err" THEN f.await.onErr
                               ELSE f.await.onOk) \o @,
                     !.await = NoAwait]>> \o SubSeq(stack, 3, Len(stack))

\* The top builder returns `res`; from the outermost it is the result of
\* CallGraph::build.
Return(res) ==
    /\ stack' = Deliver(res)
    /\ status' = IF Len(stack) = 1
                 THEN (IF res.out = "err" THEN "err" ELSE "ok")
                 ELSE status

\* The stack with its top builder replaced.
ReplaceTop(f) == <<f>> \o Tail(stack)

\* History: a definition the code located, by the file read, the owning type
\* and the name (for an external symbol, by its path), with the caller's key,
\* the key the code computed for it and the kind of call site.
Located(caller, file, ty, name, path, key, via) ==
    [caller |-> caller, file |-> file, ty |-> ty, name |-> name, path |-> path,
     key |-> key, via |-> via]

-----------------------------------------------------------------------------
\* Before CallGraph::try_new: no source tree is chosen yet.
NoWorld == [main |-> "", a |-> "", b |-> "", package |-> None, entry |-> ""]

Init ==
    /\ world = NoWorld
    /\ graph = << >>
    /\ edges = << >>
    /\ nodes_map = [k \in {} |-> None]
    /\ nodes_index_map = [k \in {} |-> 0]
    /\ imports = ImportMapNew
    /\ stack = << >>
    /\ status = "new"
    /\ builds = 0
    /\ reads = << >>
    /\ walked = << >>
    /\ raised = << >>
    /\ pre = [graph |-> << >>, edges |-> << >>, keys |-> {},
              nodes_map |-> [k \in {} |-> None],
              nodes_index_map |-> [k \in {} |-> 0],
              status |-> "new"]
    /\ resolved = {}
    /\ last = [act |-> "Init"]

\* CallGraph::try_new, on one of the source trees: the manifest is read, the
\* graph, the registry and the ImportMap are new.
CallGraphTryNew ==
    /\ status = "new"
    /\ world' \in Worlds
    /\ status' = "idle"
    /\ last' = [act |-> "CallGraphTryNew"]
    /\ UNCHANGED <<graph, edges, nodes_map, nodes_index_map, imports, stack,
                   builds, reads, walked, raised, pre, resolved>>

\* CallGraph::build, up to the call of CallGraphBuilder::build.
CallGraphBuild ==
    /\ status \in {"idle", "ok", "err"}
    /\ builds < MaxBuilds
    /\ stack' = <<CallGraphBuilderNew(entry_file, entrypoint, None, imports, 0)>>
    /\ status' = "building"
    /\ builds' = builds + 1
    /\ raised' = << >>
    /\ pre' = Snapshot
    /\ last' = [act |-> "CallGraphBuild"]
    /\ UNCHANGED <<world, graph, edges, nodes_map, nodes_index_map, imports,
                   reads, walked, resolved>>

\* CallGraphBuilder::build: fs::read_to_string(..)? and syn::parse_file(..)?
BuilderRead ==
    /\ status = "building"
    /\ IsCGB(Top) /\ Top.pc = "start"
    /\ reads' = Append(reads, Top.entry_file)
    /\ LET text == IF Normalize(Top.entry_file) \in Files
                   THEN FileSystem(world)[Normalize(Top.entry_file)] ELSE Absent IN
       IF text.kind = "source"
       THEN /\ stack' = ReplaceTop([Top EXCEPT !.pc = "visit", !.todo = text.items])
            /\ UNCHANGED <<status, raised>>
       ELSE /\ Return(Err(IF text.kind = "garbage" THEN "ParseError" ELSE "FileReadError"))
            /\ raised' = Append(raised,
                                IF text.kind = "garbage" THEN "ParseError" ELSE "FileReadError")
    /\ last' = [act |-> "BuilderRead"]
    /\ UNCHANGED <<world, graph, edges, nodes_map, nodes_index_map, imports,
                   builds, walked, pre, resolved>>

\* A CallGraphBuilder whose visitor is at an item of kind t.
AtItem(t) ==
    /\ status = "building"
    /\ IsCGB(Top) /\ Top.pc = "visit"
    /\ Top.todo # << >>
    /\ Head(Top.todo).t = t

\* self.process_use_tree(&node.tree, &mut Vec::new()) on the use statement the
\* visitor is at.
UseResult ==
    process_use_tree(Head(Top.todo).tree, << >>, Top.imports,
                     Top.entry_file, world.package, Files)

\* CallGraphBuilder::visit_item_use
VisitItemUse ==
    /\ AtItem("Use")
    /\ \E r \in {UseResult} :
          /\ imports' = IF Len(stack) = 1 THEN r.map ELSE imports
          /\ last' = [act |-> "VisitItemUse", out |-> r.out, val |-> r.val,
                      tree |-> Head(Top.todo).tree, file |-> Top.entry_file]
          /\ stack' = IF r.out = "panic" THEN << >>
                      ELSE ReplaceTop(
                               [Top EXCEPT !.imports = r.map,
                                           !.error = IF r.out = "err"
                                                     THEN Some(r.val) ELSE @,
                                           !.todo = Tail(@)])
          /\ status' = IF r.out = "panic" THEN "panic" ELSE status
          /\ raised' = IF r.out = "err" THEN Append(raised, r.val) ELSE raised
    /\ NoRegister
    /\ UNCHANGED <<world, builds, reads, walked, pre, resolved>>

\* A match on the entry point's kind alone.
MatchesEntryFnAnyName(entry, node) == entry.t = "Func"

\* The condition of visit_item_fn's outer ifs: the item is the entry function.
MatchesEntryFn(entry, node) == entry.t = "Func" /\ entry.name = node.ident

\* CallGraphBuilder::visit_item_fn
VisitItemFn ==
    /\ AtItem("Fn")
    /\ LET node == Head(Top.todo)
           node_key == resolve_node_key(Top.entry_file, Top.entrypoint) IN
       /\ IF MatchesEntryFn(Top.entrypoint, node) /\ ~ContainsKey(nodes_map, node_key)
          THEN /\ Len(stack) < MaxStack
               /\ RegisterNode(node_key, CallNodeOfFn(node.ident), Top.parent_node_key)
               /\ stack' = <<FunctionCallBuilderNew(ParentNodeFn(node_key), node.block,
                                                    Top.depth + 1),
                             [Top EXCEPT !.todo = Tail(@),
                                         !.await = [onOk |-> NestedItems(node.block),
                                                    onErr |-> << >>]]>>
                           \o Tail(stack)
               /\ walked' = Append(walked, node_key)
               /\ last' = [act |-> "VisitItemFn", matched |-> TRUE, key |-> node_key,
                           added |-> Some(node_key)]
          ELSE /\ NoRegister
               /\ stack' = ReplaceTop([Top EXCEPT !.todo = NestedItems(node.block) \o Tail(@)])
               /\ walked' = walked
               /\ last' = [act |-> "VisitItemFn",
                           matched |-> MatchesEntryFn(Top.entrypoint, node),
                           key |-> node_key, added |-> None]
       /\ resolved' = IF MatchesEntryFn(Top.entrypoint, node)
                      THEN resolved \cup
                           {Located(Top.parent_node_key, Normalize(Top.entry_file),
                                    None, node.ident, << >>, node_key,
                                    IF Len(stack) = 1 THEN "entry" ELSE "import")}
                      ELSE resolved
    /\ UNCHANGED <<world, imports, status, builds, reads, raised, pre>>

\* The condition of visit_item_impl's outer ifs: the block implements the
\* entry point's type.
MatchesEntryImpl(entry, node) == entry.t = "MethodCall" /\ entry.target_struct = node.self_ty

\* CallGraphBuilder::visit_item_impl
VisitItemImpl ==
    /\ AtItem("Impl")
    /\ LET node == Head(Top.todo)
           found == IF MatchesEntryImpl(Top.entrypoint, node)
                    THEN FindMethod(node, Top.entrypoint.method) ELSE None
           node_key == ImplNodeKey(Top.entry_file, Top.entrypoint.target_struct,
                                   Top.entrypoint.method) IN
       /\ IF found # None /\ ~ContainsKey(nodes_map, node_key)
          THEN /\ Len(stack) < MaxStack
               /\ RegisterNode(node_key, CallNodeOfMethod(found[1].ident, node.self_ty),
                               Top.parent_node_key)
               /\ stack' = <<FunctionCallBuilderNew(ParentNodeMethod(node_key, node),
                                                    found[1].block, Top.depth + 1),
                             [Top EXCEPT !.todo = Tail(@),
                                         !.await = [onOk |-> ImplNestedItems(node),
                                                    onErr |-> << >>]]>>
                           \o Tail(stack)
               /\ walked' = Append(walked, node_key)
               /\ last' = [act |-> "VisitItemImpl", matched |-> TRUE, key |-> node_key,
                           added |-> Some(node_key)]
          ELSE /\ NoRegister
               /\ stack' = ReplaceTop([Top EXCEPT !.todo = ImplNestedItems(node) \o Tail(@)])
               /\ walked' = walked
               /\ last' = [act |-> "VisitItemImpl", matched |-> found # None,
                           key |-> IF found # None THEN node_key ELSE << >>,
                           added |-> None]
       /\ resolved' = IF found # None
                      THEN resolved \cup
                           {Located(Top.parent_node_key, Normalize(Top.entry_file),
                                    Some(node.self_ty), found[1].ident, << >>, node_key,
                                    IF Len(stack) = 1 THEN "entry" ELSE "import")}
                      ELSE resolved
    /\ UNCHANGED <<world, imports, status, builds, reads, raised, pre>>

\* syn::visit::visit_item_mod, which CallGraphBuilder does not override: the
\* items of an inline module are visited.
VisitItemMod ==
    /\ AtItem("Mod")
    /\ stack' = ReplaceTop([Top EXCEPT !.todo = Head(@).items \o Tail(@)])
    /\ last' = [act |-> "VisitItemMod"]
    /\ NoRegister
    /\ UNCHANGED <<world, imports, status, builds, reads, walked, raised, pre, resolved>>

\* The end of CallGraphBuilder::build: self.error.take() decides the result.
BuilderReturn ==
    /\ status = "building"
    /\ IsCGB(Top) /\ Top.pc = "visit"
    /\ Top.todo = << >>
    /\ Return(IF Top.error # None THEN Err(Top.error[1]) ELSE Ok(None))
    /\ last' = [act |-> "BuilderReturn",
                res |-> IF Top.error # None THEN "err" ELSE "ok",
                file |-> Top.entry_file, entry |-> Top.entrypoint]
    /\ NoRegister
    /\ UNCHANGED <<world, imports, builds, reads, walked, raised, pre, resolved>>

\* A FunctionCallBuilder whose visitor is at a node of kind t.
AtNode(t) ==
    /\ status = "building"
    /\ IsFCB(Top)
    /\ Top.todo # << >>
    /\ Head(Top.todo).t = t

\* History: the unqualified call the walker just handled, with the kind of
\* import found for it and the key of the vertex added, if any.
WalkedCall(import, added) ==
    [act |-> "WalkUnqualifiedCall", import |-> import, added |-> added,
     ident |-> Head(Top.todo).path[1],
     caller |-> Top.parent_node.node_key,
     file |-> Cgb.entry_file]

\* visit_expr_call with a callee path of one segment: handle_fn_call, then
\* the default visit of the arguments.
WalkUnqualifiedCall ==
    /\ AtNode("Call")
    /\ Len(Head(Top.todo).path) = 1
    /\ LET node == Head(Top.todo)
           ident == node.path[1]
           parent_node_key == Top.parent_node.node_key
           found == ImportMapGet(Cgb.imports, ident) IN
       /\ IF found = None
          THEN /\ stack' = ReplaceTop([Top EXCEPT !.todo = node.args \o Tail(@)])
               /\ NoRegister
               /\ last' = WalkedCall("none", None)
          ELSE IF found[1].kind = "Local"
          THEN /\ Len(stack) < MaxStack
               /\ stack' = <<CallGraphBuilderNew(found[1].module_file_path, Func(ident),
                                                 Some(parent_node_key), ImportMapNew,
                                                 Top.depth + 1),
                             [Top EXCEPT !.todo = Tail(@),
                                         !.await = [onOk |-> node.args, onErr |-> node.args]]>>
                           \o Tail(stack)
               /\ NoRegister
               /\ last' = WalkedCall("Local", None)
          ELSE /\ stack' = ReplaceTop([Top EXCEPT !.todo = node.args \o Tail(@)])
               /\ IF ~ContainsKey(nodes_map, found[1].full_path)
                  THEN /\ RegisterNode(found[1].full_path, CallNodeOfFn(ident),
                                       Some(parent_node_key))
                       /\ last' = WalkedCall("External", Some(found[1].full_path))
                  ELSE /\ NoRegister
                       /\ last' = WalkedCall("External", None)
       /\ resolved' = IF found # None /\ found[1].kind = "External"
                      THEN resolved \cup
                           {Located(Some(parent_node_key), << >>, None, ident,
                                    found[1].full_path, found[1].full_path, "import")}
                      ELSE resolved
    /\ UNCHANGED <<world, imports, status, builds, reads, walked, raised, pre>>

\* visit_expr_call with the callee path Self::method.
WalkSelfCall ==
    /\ AtNode("Call")
    /\ Len(Head(Top.todo).path) = 2
    /\ Head(Top.todo).path[1] = "Self"
    /\ LET node == Head(Top.todo)
           method == node.path[2]
           found == IF Top.parent_node.kind = "Method"
                    THEN FindMethod(Top.parent_node.impl_block[1], method) ELSE None
           node_key == SelfCallNodeKey(Cgb.entry_file, Cgb.entrypoint, method) IN
       /\ IF found # None /\ ~ContainsKey(nodes_map, node_key)
          THEN /\ Len(stack) < MaxStack
               /\ RegisterNode(node_key,
                               CallNodeOfMethod(found[1].ident,
                                                Top.parent_node.impl_block[1].self_ty),
                               Some(Top.parent_node.node_key))
               /\ stack' = <<FunctionCallBuilderNew(
                                 ParentNodeMethod(node_key, Top.parent_node.impl_block[1]),
                                 found[1].block, Top.depth + 1),
                             [Top EXCEPT !.todo = Tail(@),
                                         !.await = [onOk |-> node.args, onErr |-> << >>]]>>
                           \o Tail(stack)
               /\ walked' = Append(walked, node_key)
               /\ last' = [act |-> "WalkSelfCall", added |-> Some(node_key)]
          ELSE /\ NoRegister
               /\ stack' = ReplaceTop([Top EXCEPT !.todo = node.args \o Tail(@)])
               /\ walked' = walked
               /\ last' = [act |-> "WalkSelfCall", added |-> None]
       /\ resolved' = IF found # None
                      THEN resolved \cup
                           {Located(Some(Top.parent_node.node_key),
                                    Normalize(Cgb.entry_file),
                                    Some(Top.parent_node.impl_block[1].self_ty),
                                    found[1].ident, << >>, node_key, "Self")}
                      ELSE resolved
    /\ UNCHANGED <<world, imports, status, builds, reads, raised, pre>>

\* visit_expr_call with a callee path A::b, A not Self.
WalkQualifiedCall ==
    /\ AtNode("Call")
    /\ Len(Head(Top.todo).path) = 2
    /\ Head(Top.todo).path[1] # "Self"
    /\ LET node == Head(Top.todo)
           import_identifier == node.path[1]
           method == node.path[2]
           found == ImportMapGet(Cgb.imports, import_identifier) IN
       IF found # None /\ found[1].kind = "Local"
       THEN /\ Len(stack) < MaxStack
            /\ stack' = <<CallGraphBuilderNew(found[1].module_file_path,
                                              MethodCall(import_identifier, method),
                                              Some(Top.parent_node.node_key),
                                              ImportMapNew, Top.depth + 1),
                          [Top EXCEPT !.todo = Tail(@),
                                      !.await = [onOk |-> node.args, onErr |-> << >>]]>>
                        \o Tail(stack)
            /\ last' = [act |-> "WalkQualifiedCall", import |-> "Local"]
       ELSE /\ stack' = ReplaceTop([Top EXCEPT !.todo = node.args \o Tail(@)])
            /\ last' = [act |-> "WalkQualifiedCall",
                        import |-> IF found = None THEN "none" ELSE found[1].kind]
    /\ NoRegister
    /\ UNCHANGED <<world, imports, status, builds, reads, walked, raised, pre, resolved>>

\* visit_expr_call with a callee path of three segments or more: only the
\* default visit of the arguments.
WalkLongPathCall ==
    /\ AtNode("Call")
    /\ Len(Head(Top.todo).path) > 2
    /\ stack' = ReplaceTop([Top EXCEPT !.todo = Head(@).args \o Tail(@)])
    /\ last' = [act |-> "WalkLongPathCall"]
    /\ NoRegister
    /\ UNCHANGED <<world, imports, status, builds, reads, walked, raised, pre, resolved>>

\* FunctionCallBuilder::visit_expr_method_call: the default visit of the
\* receiver and the arguments.
WalkMethodCall ==
    /\ AtNode("MethodCall")
    /\ stack' = ReplaceTop([Top EXCEPT !.todo = Head(@).receiver \o Head(@).args \o Tail(@)])
    /\ last' = [act |-> "WalkMethodCall"]
    /\ NoRegister
    /\ UNCHANGED <<world, imports, status, builds, reads, walked, raised, pre, resolved>>

\* What syn's default visitor visits inside an item met in a block.
ItemChildren(node) ==
    CASE node.t = "Fn" -> node.block
      [] node.t = "Impl" -> Flatten([i \in 1..Len(node.items) |-> node.items[i].block])
      [] node.t = "Mod" -> node.items
      [] OTHER -> << >>

\* An item among the statements of a walked block: FunctionCallBuilder
\* overrides no item visitor, so the item's own blocks are walked too.
WalkNestedItem ==
    /\ status = "building"
    /\ IsFCB(Top)
    /\ Top.todo # << >>
    /\ IsItem(Head(Top.todo))
    /\ stack' = ReplaceTop([Top EXCEPT !.todo = ItemChildren(Head(@)) \o Tail(@)])
    /\ last' = [act |-> "WalkNestedItem"]
    /\ NoRegister
    /\ UNCHANGED <<world, imports, status, builds, reads, walked, raised, pre, resolved>>

\* The end of FunctionCallBuilder::build
WalkerReturn ==
    /\ status = "building"
    /\ IsFCB(Top)
    /\ Top.todo = << >>
    /\ Return(IF Top.error # None THEN Err(Top.error[1]) ELSE Ok(None))
    /\ last' = [act |-> "WalkerReturn",
                res |-> IF Top.error # None THEN "err" ELSE "ok"]
    /\ NoRegister
    /\ UNCHANGED <<world, imports, builds, reads, walked, raised, pre, resolved>>

\* The steps of a build that is running.
Running ==
    \/ BuilderRead
    \/ VisitItemUse
    \/ VisitItemFn
    \/ VisitItemImpl
    \/ VisitItemMod
    \/ BuilderReturn
    \/ WalkUnqualifiedCall
    \/ WalkSelfCall
    \/ WalkQualifiedCall
    \/ WalkLongPathCall
    \/ WalkMethodCall
    \/ WalkNestedItem
    \/ WalkerReturn

Next ==
    \/ CallGraphTryNew
    \/ CallGraphBuild
    \/ Running

Spec == Init /\ [][Next]_vars

\* A build, once called, runs on: the recursion is one thread, and nothing
\* suspends it.
FairSpec == Spec /\ WF_vars(Running)

-----------------------------------------------------------------------------
(* Properties.                                                             *)

Range(seq) == {seq[i] : i \in 1..Len(seq)}

\* The number of edges from the vertex keyed `from` to the vertex keyed `to`.
EdgeCount(from, to) ==
    IF from \in DOMAIN nodes_index_map /\ to \in DOMAIN nodes_index_map
    THEN Cardinality({e \in 1..Len(edges) :
                         edges[e] = <<nodes_index_map[from], nodes_index_map[to]>>})
    ELSE 0

\* The number of edges leaving the vertex keyed `from`.
OutDegree(from) ==
    IF from \in DOMAIN nodes_index_map
    THEN Cardinality({e \in 1..Len(edges) : edges[e][1] = nodes_index_map[from]})
    ELSE 0

RECURSIVE UsePaths(_, _)
\* The full paths a use tree imports by name.
UsePaths(tree, prefix) ==
    CASE tree.t = "Path" -> UsePaths(tree.tree, Append(prefix, tree.ident))
      [] tree.t = "Group" ->
            UNION {UsePaths(tree.items[i], prefix) : i \in 1..Len(tree.items)}
      [] tree.t = "Name" -> {Append(prefix, tree.ident)}
      [] OTHER -> {}

RECURSIVE HasGlobOrRename(_)
\* Whether a use tree holds a glob or a renamed import.
HasGlobOrRename(tree) ==
    CASE tree.t = "Path" -> HasGlobOrRename(tree.tree)
      [] tree.t = "Group" -> \E i \in 1..Len(tree.items) : HasGlobOrRename(tree.items[i])
      [] tree.t = "Name" -> FALSE
      [] OTHER -> TRUE

\* The top-level items of a file ({} for a file that is no source).
ItemsOf(file) ==
    IF file \in Files /\ FileSystem(world)[file].kind = "source"
    THEN Range(FileSystem(world)[file].items) ELSE {}

\* The paths the top-level use statements of a file import by name.
FileUsePaths(file) ==
    UNION {UsePaths(it.tree, << >>) : it \in {i \in ItemsOf(file) : i.t = "Use"}}

\* The first segments the specification calls local.
LocalPrefixes ==
    {"crate", "self", "super"} \cup
    (IF world.package = None THEN {} ELSE {to_snake_case(world.package[1])})

\* C1: in every reachable state no two vertices of the graph carry the same
\* node key, whatever the call paths and cycles that reach the key.
C1_NoDuplicateVertex == \A i, j \in 1..Len(graph) : graph[i] = graph[j] => i = j

\* A definition is reached a second time within the first build and is not
\* added again.
C1_Witness ==
    /\ builds = 1
    /\ last.act = "VisitItemFn"
    /\ last.matched /\ last.added = None
    /\ last.key \in Range(graph)

NoRewalk == \A i, j \in 1..Len(walked) : walked[i] = walked[j] => i = j

\* C2: with functions that call themselves or each other, a build ends, and
\* the body of a definition whose key is registered is never walked again.
C2_RecursionTerminates ==
    /\ []NoRewalk
    /\ (status = "building") ~> (status # "building")

\* A call chain comes back to a function whose body is still being walked.
C2_Witness ==
    /\ last.act = "VisitItemFn"
    /\ last.matched /\ last.added = None
    /\ \E i \in 1..Len(stack) :
          IsFCB(stack[i]) /\ stack[i].parent_node.node_key = last.key


\* The methods m1, m2 of one impl block of a file, as <<type, m1, m2>>, where
\* m1's block holds the call Self::m2 and m2 is another method of the block.
SelfCalls(file) ==
    {<<it.self_ty, it.items[i].ident, it.items[j].ident>> :
        <<it, i, j>> \in
            {x \in {i \in ItemsOf(file) : i.t = "Impl"} \X (1..2) \X (1..2) :
                /\ x[2] <= Len(x[1].items) /\ x[3] <= Len(x[1].items)
                /\ x[1].items[x[2]].ident # x[1].items[x[3]].ident
                /\ \E c \in Range(x[1].items[x[2]].block) :
                      c.t = "Call" /\ c.path = <<"Self", x[1].items[x[3]].ident>>}}

ExternalPathsFor(file, ident) ==
    {P \in FileUsePaths(file) : P[1] \notin LocalPrefixes /\ P[Len(P)] = ident}

\* C5: once the walker has handled an unqualified call f(...) in a file that
\* imports f through an External path P, the graph holds a vertex keyed P
\* and an edge from the caller's vertex to it, that vertex has no outgoing
\* edge, and the call was handled as an External one (no builder was
\* started, no file read).
C5_ExternalLeaf ==
    last.act = "WalkUnqualifiedCall" =>
        \A P \in ExternalPathsFor(last.file, last.ident) :
            /\ P \in Range(graph)
            /\ EdgeCount(last.caller, P) >= 1
            /\ OutDegree(P) = 0
            /\ last.import = "External"

\* The pairs <<f, G>>: the entry file imports f through a Local path that
\* resolves to another file G, the entry function's body is the one call f(),
\* and G defines a top-level function f that calls nothing.
SiblingScenarios ==
    {<<P[Len(P)], G>> : <<P, G>> \in
        {x \in FileUsePaths(entry_file) \X Files :
            /\ entrypoint.t = "Func"
            /\ IFn(entrypoint.name, <<Call0(x[1][Len(x[1])])>>) \in ItemsOf(entry_file)
            /\ x[1][1] \in LocalPrefixes
            /\ x[2] # entry_file
            /\ resolve_import(x[1], entry_file, world.package, Files).out = "ok"
            /\ resolve_import(x[1], entry_file, world.package, Files).val.module_file_path = x[2]
            /\ IFn(x[1][Len(x[1])], << >>) \in ItemsOf(x[2])}}

\* C6: when the entry function calls f(), imported through a Local path that
\* resolves to a sibling file G defining f, the finished graph has exactly
\* the two vertices key(entry file, entry function) and key(G, f) and
\* exactly one edge, from the entry vertex to f's.
C6_SiblingScenario ==
    status = "ok" =>
        \A sc \in SiblingScenarios :
            /\ Range(graph) = {resolve_node_key(entry_file, entrypoint),
                               resolve_node_key(sc[2], Func(sc[1]))}
            /\ Len(graph) = 2
            /\ Len(edges) = 1
            /\ EdgeCount(resolve_node_key(entry_file, entrypoint),
                         resolve_node_key(sc[2], Func(sc[1]))) = 1


\* Every import of the map is Local exactly when its path starts with a
\* local prefix.
ClassifiedByPrefix(map) ==
    \A id \in DOMAIN map :
        (map[id].kind = "Local") <=> (map[id].full_path[1] \in LocalPrefixes)

\* The use statement just processed imported one plain path that does not
\* start with a local prefix: it is in the builder's map as an External import.
ExternalUseIsKept ==
    (/\ last.act = "VisitItemUse"
     /\ \E P \in UsePaths(last.tree, << >>) :
           last.tree = UseOf(P) /\ P[1] \notin LocalPrefixes)
    => /\ last.out = "ok"
       /\ \E id \in DOMAIN Top.imports :
             /\ Top.imports[id].kind = "External"
             /\ last.tree = UseOf(Top.imports[id].full_path)

\* A step that processes a use statement, or handles a call whose identifier
\* is imported as External, reads no file and starts no builder.
ExternalStepStaysPut ==
    (\/ last'.act = "VisitItemUse"
     \/ /\ last'.act \in {"WalkUnqualifiedCall", "WalkQualifiedCall"}
        /\ last'.import = "External")
    => /\ reads' = reads
       /\ Len(stack') <= Len(stack)

\* C7: an import path is Local exactly when its first segment is crate, self,
\* super or the package name, and External otherwise; processing an External
\* import or a call to an externally imported identifier starts no recursive
\* build and reads no file.
C7_Classification ==
    /\ [](/\ ClassifiedByPrefix(imports)
          /\ \A i \in 1..Len(stack) :
                IsCGB(stack[i]) => ClassifiedByPrefix(stack[i].imports)
          /\ ExternalUseIsKept)
    /\ [][ExternalStepStaysPut]_vars

\* A file imports an External path of several segments, and a call to an
\* externally imported identifier has added its vertex.
C7_Witness ==
    /\ last.act = "WalkUnqualifiedCall"
    /\ last.import = "External" /\ last.added # None
    /\ \E id \in DOMAIN imports :
          imports[id].kind = "External" /\ Len(imports[id].full_path) > 1

\* C8: when reading or parsing a visited file failed, or a Local import's
\* file was not found, at any depth, CallGraph::build returns an error.
C8_ErrorReachesCaller ==
    (raised # << >> /\ status # "building") => status = "err"

\* C9: a use statement with a glob or a renamed import makes import
\* processing fail with an error value, which CallGraph::build returns.
C9_UnsupportedImportForm ==
    (last.act = "VisitItemUse" /\ HasGlobOrRename(last.tree)) =>
        /\ last.out = "err"
        /\ status # "panic"

\* C10: when CallGraph::build returns an error, the graph and the registry
\* are as they were before the call.
C10_FailureIsAtomic ==
    status = "err" =>
        /\ graph = pre.graph
        /\ edges = pre.edges
        /\ DOMAIN nodes_map = pre.keys

\* C11: in a finished graph, every call that was resolved through the import
\* map, from a walked body X to a local definition or external symbol Y, has
\* an edge from X's vertex to Y's vertex.
C11_EveryCallHasEdge ==
    status = "ok" =>
        \A r \in resolved :
            (r.via = "import" /\ r.caller # None) =>
                EdgeCount(r.caller[1], r.key) >= 1

\* The definitions of a file that a builder for `entry` would match: function
\* items of that name, at the top level or nested, and methods of that name
\* in an impl block of that type.
RECURSIVE MatchingDefs(_, _)
MatchingDefs(nodes, entry) ==
    IF nodes = << >> THEN 0
    ELSE LET n == nodes[1]
             here == IF n.t = "Fn" /\ entry.t = "Func" /\ n.ident = entry.name THEN 1
                     ELSE IF /\ n.t = "Impl" /\ entry.t = "MethodCall"
                             /\ n.self_ty = entry.target_struct
                             /\ \E i \in 1..Len(n.items) : n.items[i].ident = entry.method
                     THEN 1
                     ELSE 0
             inside == IF n.t \in {"Fn", "Impl", "Mod"}
                       THEN MatchingDefs(ItemChildren(n), entry) ELSE 0
         IN here + inside + MatchingDefs(Tail(nodes), entry)

\* Every use statement of the file names plain paths that all resolve.
AllImportsResolve(file) ==
    /\ \A it \in ItemsOf(file) : it.t = "Use" => ~HasGlobOrRename(it.tree)
    /\ \A P \in FileUsePaths(file) :
          resolve_import(P, file, world.package, Files).out = "ok"

\* The builder at the top of the stack has read a file that holds no
\* definition matching its entry point.
TopHasNoMatch ==
    /\ status = "building"
    /\ stack # << >>
    /\ IsCGB(Top) /\ Top.pc = "visit"
    /\ MatchingDefs(FileSystem(world)[Normalize(Top.entry_file)].items,
                    Top.entrypoint) = 0

\* A step of a builder whose file holds no match leaves the graph and the
\* registry alone and starts no builder; its last step returns Ok unless one
\* of the file's imports failed.
NoMatchStep ==
    TopHasNoMatch =>
        /\ graph' = graph /\ edges' = edges
        /\ nodes_map' = nodes_map /\ nodes_index_map' = nodes_index_map
        /\ walked' = walked /\ reads' = reads
        /\ Len(stack') <= Len(stack)
        /\ (last'.act = "BuilderReturn" /\ AllImportsResolve(Top.entry_file))
              => /\ last'.res = "ok"
                 /\ Len(stack) = 1 => status' = "ok"

\* C12: a build step on a file that reads, parses and whose imports resolve,
\* but that holds no definition matching the entry point, returns success
\* and adds no vertex and no edge.
C12_NoMatchIsNoOp == [][NoMatchStep]_vars

\* A builder started for a call has gone through a file that imports
\* something and holds no match, and returns Ok to a caller whose vertex is
\* in the graph.
C12_Witness ==
    /\ status = "building"
    /\ last.act = "BuilderReturn" /\ last.res = "ok"
    /\ MatchingDefs(FileSystem(world)[Normalize(last.file)].items, last.entry) = 0
    /\ FileUsePaths(last.file) # {}
    /\ AllImportsResolve(last.file)
    /\ graph # << >>

\* A step of visit_item_fn or visit_item_impl that located the entry
\* definition under a key the registry already held changed nothing and
\* started no walk.
AlreadyRegisteredStep ==
    (/\ last'.act \in {"VisitItemFn", "VisitItemImpl"}
     /\ last'.matched
     /\ last'.key \in DOMAIN nodes_map)
    => /\ graph' = graph /\ edges' = edges
       /\ nodes_map' = nodes_map /\ nodes_index_map' = nodes_index_map
       /\ walked' = walked /\ reads' = reads
       /\ Len(stack') = Len(stack)
       /\ \A i \in 1..Len(stack') : IsFCB(stack'[i]) <=> IsFCB(stack[i])

\* C13: a build step that locates a definition whose key is already in the
\* registry adds no vertex, adds no edge from the parent and does not walk
\* the definition's body: graph and registry are as before the step.
C13_RegisteredIsSkipped == [][AlreadyRegisteredStep]_vars

\* A builder started for a call located its definition already registered,
\* and the caller has no edge to it.
C13_Witness ==
    /\ last.act \in {"VisitItemFn", "VisitItemImpl"}
    /\ last.matched /\ last.added = None
    /\ last.key \in DOMAIN nodes_map
    /\ IsCGB(Top) /\ Top.parent_node_key # None
    /\ Top.parent_node_key[1] # last.key
    /\ EdgeCount(Top.parent_node_key[1], last.key) = 0

\* The imports of a file that resolve, keyed as the code keys them, are all
\* in the map.
ImportsEntered(map, file) ==
    \A P \in FileUsePaths(file) :
        resolve_import(P, file, world.package, Files).out = "ok" =>
            \E id \in DOMAIN map : map[id].full_path = P

\* C14: when the walk of the entry definition's body starts, every use
\* statement of the file is in the builder's import map, wherever the use
\* statement stands in the file.
C14_ImportsBeforeBody ==
    (/\ last.act \in {"VisitItemFn", "VisitItemImpl"}
     /\ last.added # None)
    => ImportsEntered(stack[2].imports, stack[2].entry_file)

\* C15: after a use statement is processed, each path p::q::n it names is in
\* the builder's import map under its last segment n.
C15_KeyedByLastSegment ==
    (last.act = "VisitItemUse" /\ last.out = "ok") =>
        \A P \in UsePaths(last.tree, << >>) :
            /\ ImportMapGet(Top.imports, P[Len(P)]) # None
            /\ ImportMapGet(Top.imports, P[Len(P)])[1].full_path = P

\* Once an error is raised in a build, the steps up to the build's return
\* add no vertex and no edge, resolve no call and read no file.
AbortedStep ==
    (status = "building" /\ raised # << >>)
    => /\ graph' = graph /\ edges' = edges
       /\ reads' = reads
       /\ resolved' = resolved

\* C16: after the first error raised inside a build, the build aborts.
C16_AbortOnFirstError == [][AbortedStep]_vars

\* The definition a located record stands for: the file, the owning type and
\* the function name, or the path of an external symbol.
DefOf(r) == <<r.file, r.ty, r.name, r.path>>

\* C17: two distinct definitions (differing in file, in owning type or in
\* function name, or one local and one external) never get the same node key.
C17_KeysAreUnique ==
    \A r1, r2 \in resolved : r1.key = r2.key => DefOf(r1) = DefOf(r2)

\* The records of the definitions located through an import of the calling
\* file.
ThroughImport == {r \in resolved : r.via = "import" /\ r.path = << >>}

\* C18: call sites that resolve, through whichever import prefix, to the
\* same definition (same file, same optional type, same function name) get
\* the same node key, and the definition has exactly one vertex.
C18_SameDefinitionSameKey ==
    \A r1 \in ThroughImport :
        /\ \A r2 \in ThroughImport : DefOf(r1) = DefOf(r2) => r1.key = r2.key
        /\ Cardinality({i \in 1..Len(graph) : graph[i] = r1.key}) = 1

\* The prefixes of the imports through which the walked files reach `file`.
PrefixesTo(file) ==
    {P[1] : P \in {Q \in UNION {FileUsePaths(f) : f \in Range(reads)} :
                      \E f \in Range(reads) :
                          LET r == resolve_import(Q, f, world.package, Files) IN
                          r.out = "ok" /\ Normalize(r.val.module_file_path) = file}}

\* One definition was located from two callers, whose files import it
\* through different prefixes, and has one vertex.
C18_Witness ==
    \E r1, r2 \in ThroughImport :
        /\ DefOf(r1) = DefOf(r2)
        /\ r1.caller # r2.caller
        /\ Cardinality(PrefixesTo(r1.file)) >= 2
        /\ Cardinality({i \in 1..Len(graph) : graph[i] = r1.key}) = 1

\* The module path of a file of the crate, after Rust's rules: the
\* components below src, without ".rs", and without a final main, lib or mod.
ModulePath(file) ==
    LET rel == [i \in 1..(Len(file) - Len(SrcDir)) |-> StripRs(file[Len(SrcDir) + i])]
    IN IF rel # << >> /\ rel[Len(rel)] \in {"main", "lib", "mod"}
       THEN SubSeq(rel, 1, Len(rel) - 1) ELSE rel

\* The absolute path that names what self::... or super::... names in `file`.
Absolute(P, file) ==
    <<"crate">> \o
    (IF P[1] = "self" THEN ModulePath(file)
     ELSE SubSeq(ModulePath(file), 1, Len(ModulePath(file)) - 1)) \o
    Tail(P)

\* The file an import path resolves to in `file`: Some(path), or None.
ResolvedFile(P, file) ==
    LET r == resolve_import(P, file, world.package, Files) IN
    IF r.out = "ok" /\ r.val.kind = "Local"
    THEN Some(Normalize(r.val.module_file_path)) ELSE None

\* C19: an import self::m::X in a file F resolves to the file that
\* crate::<module of F>::m::X resolves to, and super::m::X to the file that
\* crate::<parent module of F>::m::X resolves to.
C19_MirrorsModuleRules ==
    (/\ last.act = "VisitItemUse"
     /\ world.package # None
     /\ \E P \in UsePaths(last.tree, << >>) :
           /\ last.tree = UseOf(P)
           /\ P[1] \in {"self", "super"}
           /\ Len(P) >= 3
           /\ P[1] = "super" => ModulePath(last.file) # << >>)
    => \A P \in UsePaths(last.tree, << >>) :
           ResolvedFile(P, last.file) = ResolvedFile(Absolute(P, last.file), last.file)

\* Every import of a builder's map comes from a use statement of the
\* builder's own file, and a builder started for a call starts with an
\* empty map.
OwnImportsOnly ==
    \A i \in 1..Len(stack) :
        IsCGB(stack[i]) =>
            /\ \A id \in DOMAIN stack[i].imports :
                  stack[i].imports[id].full_path \in FileUsePaths(stack[i].entry_file)
            /\ (i < Len(stack) /\ stack[i].pc = "start") =>
                  stack[i].imports = ImportMapNew

\* A call handled in a file resolves only through an import of that file.
ResolvedInOwnFile ==
    (last.act = "WalkUnqualifiedCall" /\ last.import # "none") =>
        \E P \in FileUsePaths(last.file) : last.ident \in {P[1], P[Len(P)]}

\* While the builders above it run and when they return, a builder's map
\* stays as it is.
CallerMapKept ==
    \A i \in 2..Len(stack) :
        LET k == i + Len(stack') - Len(stack) IN
        (IsCGB(stack[i]) /\ k >= 1) => stack'[k].imports = stack[i].imports

\* C20: each recursive build step starts from an empty import map, resolves
\* no identifier imported only in another file, and leaves its caller's
\* import map unchanged.
C20_ImportMapsAreSeparate ==
    /\ [](OwnImportsOnly /\ ResolvedInOwnFile)
    /\ [][CallerMapKept]_vars

\* In a callee's file the walker met a call to an identifier that only the
\* caller's file imports, and resolved nothing.
C20_Witness ==
    /\ last.act = "WalkUnqualifiedCall"
    /\ last.import = "none"
    /\ Len(stack) >= 4
    /\ last.file # stack[Len(stack)].entry_file
    /\ last.ident \in DOMAIN stack[Len(stack)].imports
    /\ \A P \in FileUsePaths(last.file) : last.ident \notin {P[1], P[Len(P)]}

-----------------------------------------------------------------------------
\* The names of the free functions at the top level of a file.
TopLevelFns(file) == {it.ident : it \in {i \in ItemsOf(file) : i.t = "Fn"}}

\* C21: a Function(name) entry point is matched only by a free function at the
\* top level of the file named `name`: every vertex registered for a function
\* the code located in a file is a top-level function of that file, so a
\* function nested in a function body or in an inline module creates none.
C21_TopLevelOnly ==
    \A r \in resolved :
        (r.ty = None /\ r.path = << >> /\ r.via \in {"entry", "import"}
            /\ r.key \in Range(graph))
        => r.name \in TopLevelFns(r.file)

-----------------------------------------------------------------------------
\* The walker is at a call A::b, A not Self.
AtQualifiedCall ==
    /\ status = "building"
    /\ IsFCB(Top)
    /\ Top.todo # << >>
    /\ Head(Top.todo).t = "Call"
    /\ Len(Head(Top.todo).path) = 2
    /\ Head(Top.todo).path[1] # "Self"

\* A is a Local import in the Import Map of the file being walked.
QualifierIsLocal ==
    LET A == Head(Top.todo).path[1] IN
    A \in DOMAIN Cgb.imports /\ Cgb.imports[A].kind = "Local"

\* At A::b with A a Local import, the step starts a build of the resolved
\* file with the entry point MethodCall{A, b} and the caller as parent.
QualifiedCallStartsBuild ==
    (AtQualifiedCall /\ QualifierIsLocal) =>
        LET path == Head(Top.todo).path IN
        /\ Len(stack') = Len(stack) + 1
        /\ stack'[1].k = "CallGraphBuilder"
        /\ stack'[1].pc = "start"
        /\ stack'[1].entry_file = Cgb.imports[path[1]].module_file_path
        /\ stack'[1].entrypoint =
               [t |-> "MethodCall", target_struct |-> path[1], method |-> path[2]]
        /\ stack'[1].parent_node_key = Some(Top.parent_node.node_key)
        /\ graph' = graph /\ edges' = edges

\* At A::b with A External or not imported, nothing is added and no build
\* starts.
QualifiedCallAddsNothing ==
    (AtQualifiedCall /\ ~QualifierIsLocal) =>
        /\ graph' = graph /\ edges' = edges
        /\ nodes_map' = nodes_map /\ nodes_index_map' = nodes_index_map
        /\ Len(stack') = Len(stack)
        /\ reads' = reads

\* The first method named b of an impl block, as a set of at most one.
MethodsNamed(impl, b) ==
    {impl.items[i] : i \in {j \in 1..Len(impl.items) :
                               /\ impl.items[j].ident = b
                               /\ \A h \in 1..(j - 1) : impl.items[h].ident # b}}

\* A build started from a call A::b is at an impl block for A that defines b,
\* and the key (file, A, b) is not registered: the step adds the vertex, an
\* edge from the caller, and starts the walk of b's body.
MethodIsRegistered ==
    (/\ status = "building"
     /\ IsCGB(Top) /\ Top.pc = "visit" /\ Top.todo # << >>
     /\ Top.entrypoint.t = "MethodCall"
     /\ Top.parent_node_key # None
     /\ Head(Top.todo).t = "Impl"
     /\ Head(Top.todo).self_ty = Top.entrypoint.target_struct
     /\ MethodsNamed(Head(Top.todo), Top.entrypoint.method) # {}
     /\ FileKey(Top.entry_file)
            \o <<Top.entrypoint.target_struct, Top.entrypoint.method>>
          \notin DOMAIN nodes_map)
    => LET key == FileKey(Top.entry_file)
                    \o <<Top.entrypoint.target_struct, Top.entrypoint.method>>
           caller == Top.parent_node_key[1] IN
       /\ graph' = Append(graph, key)
       /\ key \in DOMAIN nodes_map'
       /\ edges' = Append(edges, <<nodes_index_map[caller], Len(graph) + 1>>)
       /\ stack'[1].k = "FunctionCallBuilder"
       /\ stack'[1].parent_node.node_key = key
       /\ \E m \in MethodsNamed(Head(Top.todo), Top.entrypoint.method) :
              stack'[1].todo = m.block
       /\ walked' = Append(walked, key)

\* C22: a call A::b with A a Local import starts a build of the resolved file
\* with the entry point MethodCall{A, b}; an impl block for A defining b, with
\* the key (file, A, b) unregistered, gives a vertex, an edge from the caller
\* and the walk of b's body; with A External or not imported nothing is added.
C22_QualifiedCall ==
    [][QualifiedCallStartsBuild /\ QualifiedCallAddsNothing /\ MethodIsRegistered]_vars

\* A method reached through a qualified call has just been registered, with
\* its edge from the caller, and its body is about to be walked.
C22_Witness ==
    /\ last.act = "VisitItemImpl" /\ last.added # None
    /\ Len(stack) >= 4
    /\ IsFCB(stack[1]) /\ IsCGB(stack[2]) /\ IsFCB(stack[3])
    /\ stack[2].entrypoint.t = "MethodCall"
    /\ stack[2].parent_node_key = Some(stack[3].parent_node.node_key)
    /\ edges # << >>
    /\ edges[Len(edges)] = <<nodes_index_map[stack[3].parent_node.node_key], Len(graph)>>

-----------------------------------------------------------------------------
\* The walker is at a call it cannot resolve: an unqualified identifier that
\* the Import Map does not hold, a path of more than two segments, or a call
\* in method-call syntax.
AtUnresolvableCall ==
    /\ status = "building"
    /\ IsFCB(Top)
    /\ Top.todo # << >>
    /\ \/ /\ Head(Top.todo).t = "Call"
          /\ Len(Head(Top.todo).path) = 1
          /\ Head(Top.todo).path[1] \notin DOMAIN Cgb.imports
       \/ /\ Head(Top.todo).t = "Call"
          /\ Len(Head(Top.todo).path) > 2
       \/ Head(Top.todo).t = "MethodCall"

\* The expressions nested in a call: the receiver, if any, and the arguments.
NestedExprs(node) ==
    IF node.t = "MethodCall" THEN node.receiver \o node.args ELSE node.args

\* At such a call the step raises nothing, adds nothing, and goes on to the
\* expressions nested in the call, then to the rest of the body.
UnresolvableStep ==
    AtUnresolvableCall =>
        /\ graph' = graph /\ edges' = edges
        /\ nodes_map' = nodes_map /\ nodes_index_map' = nodes_index_map
        /\ raised' = raised /\ status' = status /\ reads' = reads
        /\ Len(stack') = Len(stack)
        /\ stack'[1].k = "FunctionCallBuilder"
        /\ stack'[1].error = Top.error
        /\ stack'[1].todo = NestedExprs(Head(Top.todo)) \o Tail(Top.todo)

\* C23: a call that cannot be resolved (an unqualified identifier absent from
\* the Import Map, a path of more than two segments, a method call x.m(..))
\* produces no error and no vertex or edge, even when m or a segment of the
\* path is an imported identifier; the calls nested in its arguments are
\* still examined.
C23_UnresolvableCallIsSkipped == [][UnresolvableStep]_vars

\* After unknown().helper() and a::b::helper(helper()), with helper imported:
\* nothing was raised or added, and the argument helper() comes next.
C23_Witness ==
    /\ last.act = "WalkLongPathCall"
    /\ IsFCB(Top) /\ Top.todo # << >>
    /\ Head(Top.todo).t = "Call"
    /\ Head(Top.todo).path = <<"helper">>
    /\ "helper" \in DOMAIN Cgb.imports
    /\ Top.error = None /\ raised = << >>
    /\ Len(graph) = 1 /\ edges = << >>

-----------------------------------------------------------------------------
\* The i-th builder of the stack counted from the outermost.
FromBottom(s, i) == s[Len(s) + 1 - i]

IsSuffix(p, q) == Len(p) <= Len(q) /\ SubSeq(q, Len(q) - Len(p) + 1, Len(q)) = p

RECURSIVE IsDescendant(_, _)
\* Whether vertex v is vertex x or is reached from x along edges, each from
\* an earlier vertex to a later one.
IsDescendant(v, x) ==
    \/ v = x
    \/ \E e \in Range(edges) : e[2] = v /\ e[1] < v /\ IsDescendant(e[1], x)

\* The definitions being walked form the active path of a depth-first
\* traversal: every vertex inserted since a walked definition was registered
\* was reached through it, and its caller's walk is still open below it.
ActivePath ==
    \A i \in 1..Len(stack) :
        IsFCB(stack[i]) =>
            LET X == stack[i].parent_node.node_key IN
            /\ X \in DOMAIN nodes_index_map
            /\ \A v \in (nodes_index_map[X] + 1)..Len(graph) :
                   IsDescendant(v, nodes_index_map[X])
            /\ \A e \in Range(edges) :
                   e[2] = nodes_index_map[X] =>
                       \E j \in (i + 1)..Len(stack) :
                           /\ IsFCB(stack[j])
                           /\ stack[j].parent_node.node_key = graph[e[1]]

\* A caller waits for its callee: a builder below the top of the stack does
\* not move; the top one takes its call sites in source order; a return
\* resumes the caller where it stopped.
CallerWaits ==
    /\ \A i \in 1..(Len(stack) - 1) :
           i < Len(stack') => FromBottom(stack', i) = FromBottom(stack, i)
    /\ (stack # << >> /\ Top.todo # << >> /\ Len(stack') >= Len(stack)) =>
           IsSuffix(Tail(Top.todo), FromBottom(stack', Len(stack)).todo)
    /\ (Len(stack) >= 2 /\ Len(stack') < Len(stack) /\ stack' # << >>) =>
           /\ Len(stack') = Len(stack) - 1
           /\ stack'[1].k = stack[2].k
           /\ IsSuffix(stack[2].todo, stack'[1].todo)

\* C24: the traversal is depth-first in source order: a definition reached
\* from a call site, and every definition registered through it, is
\* registered before the caller's next call site is examined, so vertices
\* are inserted in depth-first pre-order of the call structure.
C24_DepthFirst == []ActivePath /\ [][CallerWaits]_vars

\* Three walks are open, the innermost two levels below main, while main
\* still has call sites to examine.
C24_Witness ==
    /\ Len(stack) >= 6
    /\ IsFCB(stack[1]) /\ IsFCB(stack[3]) /\ IsFCB(stack[5])
    /\ stack[5].todo # << >>
    /\ Len(graph) >= 3
    /\ ActivePath

-----------------------------------------------------------------------------
\* C25: in every reachable state the Call Node map, the index map and the
\* graph hold the same keys, the index map sends distinct keys to distinct
\* vertices (each key to the vertex that carries it), and both endpoints of
\* every edge are registered vertices.
C25_RegistryIsConsistent ==
    /\ DOMAIN nodes_map = DOMAIN nodes_index_map
    /\ DOMAIN nodes_map = Range(graph)
    /\ \A k \in DOMAIN nodes_index_map :
           /\ nodes_index_map[k] \in 1..Len(graph)
           /\ graph[nodes_index_map[k]] = k
    /\ \A k1, k2 \in DOMAIN nodes_index_map :
           nodes_index_map[k1] = nodes_index_map[k2] => k1 = k2
    /\ \A e \in Range(edges) :
           \A end \in {e[1], e[2]} :
               \E k \in DOMAIN nodes_index_map : nodes_index_map[k] = end

\* A build under way with three vertices and two edges registered.
C25_Witness ==
    /\ status = "building"
    /\ Len(graph) >= 3
    /\ Len(edges) >= 2
    /\ Cardinality(DOMAIN nodes_map) = Len(graph)

-----------------------------------------------------------------------------
RECURSIVE Underscored(_)
\* A name with every "-" replaced by "_".
Underscored(parts) ==
    IF parts = << >> THEN ""
    ELSE (IF Head(parts) = "-" THEN "_" ELSE Head(parts)) \o Underscored(Tail(parts))

\* The use statement the visitor is at imports one path by name, and the
\* path starts with the package name of the manifest, "-" written "_".
AtPackagePathUse ==
    /\ AtItem("Use")
    /\ world.package # None
    /\ ~HasGlobOrRename(Head(Top.todo).tree)
    /\ \E P \in UsePaths(Head(Top.todo).tree, << >>) :
          /\ UsePaths(Head(Top.todo).tree, << >>) = {P}
          /\ P[1] = Underscored(world.package[1])

\* The step at such a use statement ends as the resolution of the same path
\* under `crate` ends: the same file under the same identifier in the Import
\* Map, or the same error.
PackagePathStep ==
    AtPackagePathUse =>
        LET P == CHOOSE Q \in UsePaths(Head(Top.todo).tree, << >>) : TRUE
            c == resolve_import(<<"crate">> \o Tail(P), Top.entry_file,
                                world.package, Files)
            id == P[Len(P)] IN
        CASE c.out = "ok" ->
                 /\ stack' # << >>
                 /\ id \in DOMAIN stack'[1].imports
                 /\ stack'[1].imports[id].kind = "Local"
                 /\ stack'[1].imports[id].module_file_path = c.val.module_file_path
                 /\ raised' = raised
          [] c.out = "err" ->
                 /\ raised' = Append(raised, c.val)
                 /\ stack' # << >>
                 /\ stack'[1].imports = Top.imports
          [] OTHER -> status' = "panic"

\* C26: an import path whose first segment is the manifest's package name,
\* every "-" replaced by "_", resolves to the same file, and so to the same
\* node keys, as the same path with `crate` as its first segment.
C26_PackageNameIsCrate == [][PackagePathStep]_vars

\* `use my_pkg::a::helper` in a package named my-pkg has just been resolved
\* to the file a.rs.
C26_Witness ==
    /\ last.act = "VisitItemUse" /\ last.out = "ok"
    /\ world.package = Some(<<"my", "-", "pkg">>)
    /\ last.tree.ident = "my_pkg"
    /\ stack # << >>
    /\ "helper" \in DOMAIN Top.imports
    /\ Top.imports["helper"].kind = "Local"
    /\ Top.imports["helper"].module_file_path = ARs

-----------------------------------------------------------------------------
\* The edges whose target is vertex v, by their position.
IncomingEdges(v) == {i \in 1..Len(edges) : edges[i][2] = v}

\* Once the entry definition is registered the graph is a tree rooted at it.
GraphIsTree ==
    graph # << >> =>
        /\ graph[1] = FileKey(entry_file) \o
                          (IF entrypoint.t = "Func" THEN <<entrypoint.name>>
                           ELSE <<entrypoint.target_struct, entrypoint.method>>)
        /\ Len(edges) = Len(graph) - 1
        /\ IncomingEdges(1) = {}
        /\ \A v \in 2..Len(graph) :
               /\ Cardinality(IncomingEdges(v)) = 1
               /\ \A i \in IncomingEdges(v) : edges[i][1] \in 1..(v - 1)
        /\ \A i \in 1..Len(edges) : edges[i][1] # edges[i][2]
        /\ \A i, j \in 1..Len(edges) : edges[i] = edges[j] => i = j

\* An edge is added only together with its target vertex.
EdgeComesWithVertex ==
    edges' # edges =>
        /\ Len(graph') = Len(graph) + 1
        /\ Len(edges') = Len(edges) + 1
        /\ SubSeq(edges', 1, Len(edges)) = edges
        /\ edges'[Len(edges')][2] = Len(graph')
        /\ edges'[Len(edges')][1] \in 1..Len(graph)

\* C28: once the entry definition is found the graph is a tree rooted at the
\* entry vertex: an edge is added only with the creation of its target, so
\* there is one edge fewer than vertices, every other vertex has exactly one
\* incoming edge, from a vertex registered earlier, and there is no
\* self-loop, no cycle and no repeated edge.
C28_GraphIsTree == []GraphIsTree /\ [][EdgeComesWithVertex]_vars

\* A finished build whose entry vertex has two children.
C28_Witness ==
    /\ status = "ok"
    /\ Len(graph) >= 3
    /\ \E i, j \in 1..Len(edges) :
           i # j /\ edges[i][1] = 1 /\ edges[j][1] = 1
    /\ GraphIsTree

-----------------------------------------------------------------------------
\* C29: resolving an import path never crashes: whatever the path (two
\* segments such as crate::helper included) and whether or not the manifest
\* names a package, a use statement that imports by name ends in an Import
\* or in an error value, never in a panic.
C29_ResolutionNeverCrashes ==
    (last.act = "VisitItemUse" /\ ~HasGlobOrRename(last.tree)) => last.out # "panic"

-----------------------------------------------------------------------------
\* A build called again after a build that returned success.
RebuildAfterSuccess == builds >= 2 /\ pre.status = "ok"

\* During and after such a build the graph and the registry are as the
\* earlier build left them, and no failure is returned.
RebuildChangesNothing ==
    RebuildAfterSuccess =>
        /\ graph = pre.graph
        /\ edges = pre.edges
        /\ nodes_map = pre.nodes_map
        /\ nodes_index_map = pre.nodes_index_map
        /\ status \in {"building", "ok"}

\* C30: CallGraph::build is idempotent on an unmodified source tree: called
\* again on the same CallGraph after a successful call it returns success
\* and leaves the graph and the registry as they were (no vertex, no edge
\* added).
C30_BuildIsIdempotent ==
    []RebuildChangesNothing /\ (RebuildAfterSuccess ~> status = "ok")

\* The second build of a graph of two or more vertices has returned success.
C30_Witness ==
    /\ builds = 2 /\ pre.status = "ok" /\ status = "ok"
    /\ Len(graph) >= 2 /\ edges # << >>
    /\ graph = pre.graph

=============================================================================
